---- MODULE Spec2Model ----
(***************************************************************************)
(* Model of the autodiff tape (Wengert list) of RustQuant,                 *)
(* src/autodiff/tape.rs.                                                   *)
(*                                                                         *)
(* A Tape is a RefCell<Vec<Vertex>>; a Vertex is two parent indices and    *)
(* two partials.  The tape is modelled as a sequence of records; the       *)
(* vertex with index i of the code is element i + 1 of the sequence.       *)
(* f64 values are modelled by the small integers of PartialVals and        *)
(* ValueVals (0 stands for 0.0), usize indices by 0 .. MaxParent.          *)
(*                                                                         *)
(* Two tapes are driven side by side.  `vertices` is the tape the caller   *)
(* of an action names; `mirror` is a second Tape that receives the         *)
(* corresponding call in the other form (generic push where `vertices`     *)
(* gets an arity-specialised call and the reverse, one var per value       *)
(* where `vertices` gets vars and the reverse).  `fresh` is a third Tape   *)
(* that receives the same calls as `vertices`, except that where           *)
(* `vertices` is cleared `fresh` is replaced by Tape::new().               *)
(*                                                                         *)
(* `cell` is the RefCell around the vector: every method is also given as  *)
(* the sequence of borrows it takes and drops, and the sequence is run on  *)
(* the borrow flag of the cell.                                            *)
(*                                                                         *)
(* Spec is the tape under a caller that keeps no index across clear().     *)
(* SpecStale is the tape under a caller that keeps them (`dangling`) and   *)
(* reads the vertex sequence at the indices it holds.                      *)
(***************************************************************************)
EXTENDS Integers, Sequences, FiniteSets, TLC

\* Bounds of the model.
MaxLen == 2
MaxParent == 1
MaxVals == 2

PartialVals == {0, 1}
ValueVals == {2, 3}
ParentVals == 0 .. MaxParent
Arities == {"Nullary", "Unary", "Binary"}

Pairs(S) == {<<a, b>> : a \in S, b \in S}

RECURSIVE SeqsUpTo(_, _)
SeqsUpTo(S, n) ==
    IF n = 0 THEN {<<>>}
    ELSE LET shorter == SeqsUpTo(S, n - 1)
         IN  shorter \cup {Append(s, x) : s \in {q \in shorter : Len(q) = n - 1}, x \in S}

VARIABLES vertices, mirror, op, ret, ret2, preLen, issued, phase, misused,
          dangling, fresh, ret3, cell

vars_ == <<vertices, mirror, op, ret, ret2, preLen, issued, phase, misused,
           dangling, fresh, ret3, cell>>

----------------------------------------------------------------------------
\* The Vertex record.
Vertex(parents, partials) == [parents |-> parents, partials |-> partials]

\* Tape::default and Tape::new: an empty vector.
default == <<>>

new == <<>>

\* Tape::len
len(t) == Len(t)

\* Tape::is_empty
is_empty(t) == Len(t) = 0

\* clear as a value reset: the vertices stay, their partials are zeroed.
clear_keeps_vertices(t) == [i \in 1 .. Len(t) |-> [t[i] EXCEPT !.partials = <<0, 0>>]]

\* clear that truncates to one vertex instead of none.
clear_keeps_first(t) == IF t = <<>> THEN t ELSE <<t[1]>>

\* clear that leaves one leaf vertex on the tape.
clear_leaves_root(t) == <<Vertex(<<0, 0>>, <<0, 0>>)>>

\* Tape::clear
clear(t) == SubSeq(t, 1, 0)

\* zero with the last vertex left out of the iteration.
zero_skips_last(t) ==
    [i \in 1 .. Len(t) |-> IF i < Len(t) THEN [t[i] EXCEPT !.partials = <<0, 0>>] ELSE t[i]]

\* zero that writes the old first partial into the second slot.
zero_shifts_partials(t) ==
    [i \in 1 .. Len(t) |-> [t[i] EXCEPT !.partials = <<0, t[i].partials[1]>>]]

\* Tape::zero
zero(t) == [i \in 1 .. Len(t) |-> [t[i] EXCEPT !.partials = <<0, 0>>]]

\* push whose Nullary arm builds the vertex from its arguments.
push_leaf_from_args(t, operation, parents, partials) ==
    LET l == Len(t)
        vertex == CASE operation = "Nullary" -> Vertex(<<parents[1], parents[2]>>,
                                                       <<partials[1], partials[2]>>)
                    [] operation = "Unary"   -> Vertex(<<parents[1], l>>, <<partials[1], 0>>)
                    [] operation = "Binary"  -> Vertex(<<parents[1], parents[2]>>,
                                                       <<partials[1], partials[2]>>)
    IN  [tape |-> Append(t, vertex), ret |-> l]

\* push whose Unary arm takes the length after the push as the own index.
push_unary_self_after(t, operation, parents, partials) ==
    LET l == Len(t)
        vertex == CASE operation = "Nullary" -> Vertex(<<l, l>>, <<0, 0>>)
                    [] operation = "Unary"   -> Vertex(<<parents[1], l + 1>>, <<partials[1], 0>>)
                    [] operation = "Binary"  -> Vertex(<<parents[1], parents[2]>>,
                                                       <<partials[1], partials[2]>>)
    IN  [tape |-> Append(t, vertex), ret |-> l]

\* Tape::push: the new tape and the returned index.
push(t, operation, parents, partials) ==
    LET l == Len(t)
        vertex == CASE operation = "Nullary" -> Vertex(<<l, l>>, <<0, 0>>)
                    [] operation = "Unary"   -> Vertex(<<parents[1], l>>, <<partials[1], 0>>)
                    [] operation = "Binary"  -> Vertex(<<parents[1], parents[2]>>,
                                                       <<partials[1], partials[2]>>)
    IN  [tape |-> Append(t, vertex), ret |-> l]

\* push_nullary with the parents left at index 0 instead of the own index.
push_nullary_zero_parents(t) ==
    LET l == Len(t)
    IN  [tape |-> Append(t, Vertex(<<0, 0>>, <<0, 0>>)), ret |-> l]

\* push_nullary that inserts the vertex at the front of the vector.
push_nullary_at_front(t) ==
    LET l == Len(t)
    IN  [tape |-> <<Vertex(<<l, l>>, <<0, 0>>)>> \o t, ret |-> l]

\* push_nullary that takes the length after the push as the own index.
push_nullary_next_index(t) ==
    LET l == Len(t)
    IN  [tape |-> Append(t, Vertex(<<l + 1, l + 1>>, <<0, 0>>)), ret |-> l]

\* Tape::push_nullary
push_nullary(t) ==
    LET l == Len(t)
    IN  [tape |-> Append(t, Vertex(<<l, l>>, <<0, 0>>)), ret |-> l]

\* push_unary with the two slots exchanged.
push_unary_slots_swapped(t, parent0, partial0) ==
    LET l == Len(t)
    IN  [tape |-> Append(t, Vertex(<<l, parent0>>, <<0, partial0>>)), ret |-> l]

\* push_unary that replaces a parent index beyond the tape by the own index.
push_unary_clamps_parent(t, parent0, partial0) ==
    LET l == Len(t)
        p == IF parent0 >= l THEN l ELSE parent0
    IN  [tape |-> Append(t, Vertex(<<p, l>>, <<partial0, 0>>)), ret |-> l]

\* Tape::push_unary
push_unary(t, parent0, partial0) ==
    LET l == Len(t)
    IN  [tape |-> Append(t, Vertex(<<parent0, l>>, <<partial0, 0>>)), ret |-> l]

\* push_binary returning the length after the push.
push_binary_returns_new_len(t, parent0, partial0, parent1, partial1) ==
    LET l == Len(t)
    IN  [tape |-> Append(t, Vertex(<<parent0, parent1>>, <<partial0, partial1>>)), ret |-> l + 1]

\* push_binary with the two partials exchanged.
push_binary_partials_swapped(t, parent0, partial0, parent1, partial1) ==
    LET l == Len(t)
    IN  [tape |-> Append(t, Vertex(<<parent0, parent1>>, <<partial1, partial0>>)), ret |-> l]

\* Tape::push_binary
push_binary(t, parent0, partial0, parent1, partial1) ==
    LET l == Len(t)
    IN  [tape |-> Append(t, Vertex(<<parent0, parent1>>, <<partial0, partial1>>)), ret |-> l]

\* var that builds the handle without recording a vertex.
var_without_vertex(t, value) ==
    [tape |-> t, ret |-> [value |-> value, index |-> Len(t)]]

\* Tape::var: the handle carries the value and the index push_nullary returned
\* (its `tape` field is the reference to the tape itself).
var(t, value) ==
    LET r == push_nullary(t)
    IN  [tape |-> r.tape, ret |-> [value |-> value, index |-> r.ret]]

\* vars collecting the handles in reverse order.
RECURSIVE vars_reversed(_, _)
vars_reversed(t, values) ==
    IF values = <<>> THEN [tape |-> t, ret |-> <<>>]
    ELSE LET first == [tape |-> Append(t, Vertex(<<Len(t), Len(t)>>, <<0, 0>>)),
                       ret |-> [value |-> Head(values), index |-> Len(t)]]
             rest == vars_reversed(first.tape, Tail(values))
         IN  [tape |-> rest.tape, ret |-> rest.ret \o <<first.ret>>]

\* Tape::vars: values.iter().map(|&val| self.var(val)).collect()
RECURSIVE vars(_, _)
vars(t, values) ==
    IF values = <<>> THEN [tape |-> t, ret |-> <<>>]
    ELSE LET first == var(t, Head(values))
             rest == vars(first.tape, Tail(values))
         IN  [tape |-> rest.tape, ret |-> <<first.ret>> \o rest.ret]

\* Reading the vertex sequence by position, vertices.borrow()[index]: the
\* vertex at the index, or the out-of-range fault of the vector.
read(t, index) ==
    IF index < Len(t) THEN [fault |-> FALSE, vertex |-> t[index + 1]]
    ELSE [fault |-> TRUE, vertex |-> Vertex(<<0, 0>>, <<0, 0>>)]

----------------------------------------------------------------------------
\* The RefCell around the vector.  flag is its borrow flag: 0 when not
\* borrowed, n > 0 under n shared borrows, -1 under the exclusive borrow.
\* peak is the largest number of borrows that were in flight together
\* during the last call, taken the number of borrows the last call was
\* granted, conflict whether a borrow of the last call was refused (the
\* panic of borrow() and borrow_mut()).
RefCellNew == [flag |-> 0, peak |-> 0, taken |-> 0, conflict |-> FALSE]

InFlight(flag) == IF flag < 0 THEN 1 ELSE flag

Max(a, b) == IF a >= b THEN a ELSE b

\* One borrow event on the cell: "borrow" is vertices.borrow(), "borrow_mut"
\* is vertices.borrow_mut(), "drop" is the end of the borrow taken last.
BorrowStep(c, event) ==
    CASE event = "borrow" ->
            IF c.flag >= 0
            THEN [c EXCEPT !.flag = c.flag + 1, !.peak = Max(c.peak, c.flag + 1),
                           !.taken = c.taken + 1]
            ELSE [c EXCEPT !.conflict = TRUE]
      [] event = "borrow_mut" ->
            IF c.flag = 0
            THEN [c EXCEPT !.flag = -1, !.peak = Max(c.peak, 1), !.taken = c.taken + 1]
            ELSE [c EXCEPT !.conflict = TRUE]
      [] event = "drop" ->
            IF c.flag > 0 THEN [c EXCEPT !.flag = c.flag - 1] ELSE [c EXCEPT !.flag = 0]

\* The events of a call run in order; a refused borrow unwinds the call, and
\* the unwinding drops the borrows the call holds.
RECURSIVE RunEvents(_, _, _)
RunEvents(c, events, entry) ==
    IF events = <<>> THEN c
    ELSE LET d == BorrowStep(c, Head(events))
         IN  IF d.conflict THEN [d EXCEPT !.flag = entry]
             ELSE RunEvents(d, Tail(events), entry)

RunBorrows(c, events) ==
    RunEvents([flag |-> c.flag, peak |-> InFlight(c.flag), taken |-> 0, conflict |-> FALSE],
              events, c.flag)

\* The borrows of each method, in the order the method takes and drops them.
len_borrows == <<"borrow", "drop">>

is_empty_borrows == <<"borrow", "drop">>

clear_borrows == <<"borrow_mut", "drop">>

\* zero holds the exclusive borrow over the iteration; the closure run on
\* each vertex assigns the partials and takes no borrow.
zero_closure_borrows == <<>>

RECURSIVE Repeat(_, _)
Repeat(events, n) == IF n = 0 THEN <<>> ELSE events \o Repeat(events, n - 1)

zero_borrows(t) ==
    <<"borrow_mut">> \o Repeat(zero_closure_borrows, Len(t)) \o <<"drop">>

push_borrows == <<"borrow_mut", "drop">>

push_nullary_borrows == <<"borrow_mut", "drop">>

push_unary_borrows == <<"borrow_mut", "drop">>

push_binary_borrows == <<"borrow_mut", "drop">>

\* var holding a shared borrow of its own while it calls push_nullary.
var_borrows_nested == <<"borrow">> \o push_nullary_borrows \o <<"drop">>

\* var calls push_nullary and takes no borrow of its own.
var_borrows == push_nullary_borrows

\* vars calls var once per value.
RECURSIVE vars_borrows(_)
vars_borrows(values) ==
    IF values = <<>> THEN <<>>
    ELSE var_borrows \o vars_borrows(Tail(values))

read_borrows == <<"borrow", "drop">>

----------------------------------------------------------------------------
\* The record of the last call: its name and its arguments.  For the pushes
\* `parents` and `partials` are the two arrays of the generic form; the
\* positional forms take parents[1], partials[1], parents[2], partials[2].
Call(name, operation, parents, partials, values) ==
    [name |-> name, operation |-> operation, parents |-> parents,
     partials |-> partials, values |-> values]

NoArgs(name) == Call(name, "None", <<0, 0>>, <<0, 0>>, <<>>)

Recording == {"var", "vars", "push", "push_nullary", "push_unary", "push_binary"}

\* A parent index that is read by the arity and does not denote a vertex.
OutOfRange(t, operation, parents) ==
    \/ operation \in {"Unary", "Binary"} /\ parents[1] >= Len(t)
    \/ operation = "Binary" /\ parents[2] >= Len(t)

\* Where the tape is in its life: "new" until the first recording call,
\* "cleared" from a clear() to the next recording call, "first" right after
\* the first recording call that follows a clear(), "later" otherwise.
\* n is the number of vertices the call records.
NextPhase(n) ==
    IF n = 0 THEN (IF phase = "first" THEN "later" ELSE phase)
    ELSE IF phase = "cleared" THEN "first" ELSE "later"

Init ==
    /\ \E name \in {"new", "default"} :
          /\ op = NoArgs(name)
          /\ vertices = (IF name = "new" THEN new ELSE default)
          /\ mirror = (IF name = "new" THEN new ELSE default)
    /\ ret = <<>>
    /\ ret2 = <<>>
    /\ preLen = 0
    /\ issued = <<>>
    /\ phase = "new"
    /\ misused = FALSE
    /\ dangling = {}
    /\ fresh = new
    /\ ret3 = <<>>
    /\ cell = RefCellNew

\* tape.var(value); the mirror tape gets vars(&[value]).
CallVar ==
    /\ Len(vertices) < MaxLen
    /\ \E value \in ValueVals :
          LET r == var(vertices, value)
              m == vars(mirror, <<value>>)
              f == var(fresh, value)
          IN  /\ vertices' = r.tape
              /\ mirror' = m.tape
              /\ fresh' = f.tape
              /\ ret' = <<r.ret>>
              /\ ret2' = m.ret
              /\ ret3' = <<f.ret>>
              /\ op' = Call("var", "None", <<0, 0>>, <<0, 0>>, <<value>>)
              /\ issued' = Append(issued, r.ret.index)
    /\ preLen' = Len(vertices)
    /\ phase' = NextPhase(1)
    /\ cell' = RunBorrows(cell, var_borrows)
    /\ UNCHANGED <<misused, dangling>>

\* One call of var per value, in input order, collecting the handles.
RECURSIVE VarLoop(_, _, _)
VarLoop(t, values, out) ==
    IF values = <<>> THEN [tape |-> t, ret |-> out]
    ELSE LET r == var(t, Head(values))
         IN  VarLoop(r.tape, Tail(values), Append(out, r.ret))

Indices(handles) == [i \in 1 .. Len(handles) |-> handles[i].index]

\* tape.vars(values); the mirror tape gets one var call per value.
CallVars ==
    /\ \E values \in SeqsUpTo(ValueVals, MaxVals) :
          /\ Len(vertices) + Len(values) <= MaxLen
          /\ LET r == vars(vertices, values)
                 m == VarLoop(mirror, values, <<>>)
                 f == vars(fresh, values)
             IN  /\ vertices' = r.tape
                 /\ mirror' = m.tape
                 /\ fresh' = f.tape
                 /\ ret' = r.ret
                 /\ ret2' = m.ret
                 /\ ret3' = f.ret
                 /\ cell' = RunBorrows(cell, vars_borrows(values))
                 /\ op' = Call("vars", "None", <<0, 0>>, <<0, 0>>, values)
                 /\ issued' = issued \o Indices(r.ret)
                 /\ phase' = NextPhase(Len(values))
    /\ preLen' = Len(vertices)
    /\ UNCHANGED <<misused, dangling>>

\* tape.len()
CallLen ==
    /\ op' = NoArgs("len")
    /\ ret' = <<len(vertices)>>
    /\ ret2' = <<len(mirror)>>
    /\ ret3' = <<len(fresh)>>
    /\ preLen' = Len(vertices)
    /\ phase' = NextPhase(0)
    /\ cell' = RunBorrows(cell, len_borrows)
    /\ UNCHANGED <<vertices, mirror, fresh, issued, misused, dangling>>

\* tape.is_empty()
CallIsEmpty ==
    /\ op' = NoArgs("is_empty")
    /\ ret' = <<is_empty(vertices)>>
    /\ ret2' = <<is_empty(mirror)>>
    /\ ret3' = <<is_empty(fresh)>>
    /\ preLen' = Len(vertices)
    /\ phase' = NextPhase(0)
    /\ cell' = RunBorrows(cell, is_empty_borrows)
    /\ UNCHANGED <<vertices, mirror, fresh, issued, misused, dangling>>

\* What clear() does to the three tapes and to the bookkeeping.
Cleared ==
    /\ vertices' = clear(vertices)
    /\ mirror' = clear(mirror)
    /\ fresh' = new
    /\ op' = NoArgs("clear")
    /\ ret' = <<>>
    /\ ret2' = <<>>
    /\ ret3' = <<>>
    /\ preLen' = Len(vertices)
    /\ issued' = <<>>
    /\ phase' = "cleared"
    /\ cell' = RunBorrows(cell, clear_borrows)
    /\ UNCHANGED misused

\* tape.clear(), by a caller that keeps none of the indices it was issued.
CallClear ==
    /\ Cleared
    /\ UNCHANGED dangling

\* tape.clear(), by a caller that keeps the indices it was issued: they are
\* dangling from here on.
CallClearHeld ==
    /\ Cleared
    /\ dangling' = dangling \cup {issued[i] : i \in 1 .. Len(issued)}

\* tape.zero()
CallZero ==
    /\ vertices' = zero(vertices)
    /\ mirror' = zero(mirror)
    /\ fresh' = zero(fresh)
    /\ op' = NoArgs("zero")
    /\ ret' = <<>>
    /\ ret2' = <<>>
    /\ ret3' = <<>>
    /\ preLen' = Len(vertices)
    /\ phase' = NextPhase(0)
    /\ cell' = RunBorrows(cell, zero_borrows(vertices))
    /\ UNCHANGED <<issued, misused, dangling>>

\* The bookkeeping every push shares.
Pushed(name, operation, parents, partials, r, m, f, borrows) ==
    /\ vertices' = r.tape
    /\ mirror' = m.tape
    /\ fresh' = f.tape
    /\ ret' = <<r.ret>>
    /\ ret2' = <<m.ret>>
    /\ ret3' = <<f.ret>>
    /\ cell' = RunBorrows(cell, borrows)
    /\ UNCHANGED dangling
    /\ op' = Call(name, operation, parents, partials, <<>>)
    /\ preLen' = Len(vertices)
    /\ issued' = Append(issued, r.ret)
    /\ phase' = NextPhase(1)
    /\ misused' = (misused \/ OutOfRange(vertices, operation, parents))

\* tape.push(operation, &parents, &partials); the mirror tape gets the
\* arity-specialised call with the same arguments.
CallPush ==
    /\ Len(vertices) < MaxLen
    /\ \E operation \in Arities, parents \in Pairs(ParentVals), partials \in Pairs(PartialVals) :
          Pushed("push", operation, parents, partials,
                 push(vertices, operation, parents, partials),
                 CASE operation = "Nullary" -> push_nullary(mirror)
                   [] operation = "Unary"   -> push_unary(mirror, parents[1], partials[1])
                   [] operation = "Binary"  -> push_binary(mirror, parents[1], partials[1],
                                                           parents[2], partials[2]),
                 push(fresh, operation, parents, partials),
                 push_borrows)

\* tape.push_nullary(); the mirror tape gets push(Nullary, [0, 0], [0.0, 0.0])
\* (CallPush runs the pair from the same state with every value of the
\* arrays).
CallPushNullary ==
    /\ Len(vertices) < MaxLen
    /\ Pushed("push_nullary", "Nullary", <<0, 0>>, <<0, 0>>,
              push_nullary(vertices),
              push(mirror, "Nullary", <<0, 0>>, <<0, 0>>),
              push_nullary(fresh),
              push_nullary_borrows)

\* tape.push_unary(parent0, partial0); the mirror tape gets
\* push(Unary, [parent0, parent0], [partial0, partial0]) (CallPush runs the
\* pair from the same state with every value of the second entries).
CallPushUnary ==
    /\ Len(vertices) < MaxLen
    /\ \E parent0 \in ParentVals, partial0 \in PartialVals :
          Pushed("push_unary", "Unary", <<parent0, parent0>>, <<partial0, partial0>>,
                 push_unary(vertices, parent0, partial0),
                 push(mirror, "Unary", <<parent0, parent0>>, <<partial0, partial0>>),
                 push_unary(fresh, parent0, partial0),
                 push_unary_borrows)

\* tape.push_binary(parent0, partial0, parent1, partial1); the mirror tape
\* gets push(Binary, [parent0, parent1], [partial0, partial1]).
CallPushBinary ==
    /\ Len(vertices) < MaxLen
    /\ \E parents \in Pairs(ParentVals), partials \in Pairs(PartialVals) :
          Pushed("push_binary", "Binary", parents, partials,
                 push_binary(vertices, parents[1], partials[1], parents[2], partials[2]),
                 push(mirror, "Binary", parents, partials),
                 push_binary(fresh, parents[1], partials[1], parents[2], partials[2]),
                 push_binary_borrows)

\* The consumer of the tape reads the vertex at an index it was issued,
\* tape.vertices.borrow()[index], on each of the three tapes.
CallRead ==
    /\ \E index \in dangling \cup {issued[i] : i \in 1 .. Len(issued)} :
          /\ op' = Call("read", "None", <<0, 0>>, <<0, 0>>, <<index>>)
          /\ ret' = <<read(vertices, index)>>
          /\ ret2' = <<read(mirror, index)>>
          /\ ret3' = <<read(fresh, index)>>
    /\ preLen' = Len(vertices)
    /\ phase' = NextPhase(0)
    /\ cell' = RunBorrows(cell, read_borrows)
    /\ UNCHANGED <<vertices, mirror, fresh, issued, misused, dangling>>

Next ==
    \/ CallVar
    \/ CallVars
    \/ CallLen
    \/ CallIsEmpty
    \/ CallClear
    \/ CallZero
    \/ CallPush
    \/ CallPushNullary
    \/ CallPushUnary
    \/ CallPushBinary

Spec == Init /\ [][Next]_vars_

\* The calls of a caller that keeps its indices across clear() and reads
\* the tape at them.  Partials play no part in it: they are all 0.0 here.
ZeroPartials == op'.partials = <<0, 0>>

NextStale ==
    \/ CallVar /\ ZeroPartials
    \/ CallVars /\ ZeroPartials
    \/ CallLen /\ ZeroPartials
    \/ CallIsEmpty /\ ZeroPartials
    \/ CallClearHeld /\ ZeroPartials
    \/ CallZero /\ ZeroPartials
    \/ CallPush /\ ZeroPartials
    \/ CallPushNullary /\ ZeroPartials
    \/ CallPushUnary /\ ZeroPartials
    \/ CallPushBinary /\ ZeroPartials
    \/ CallRead /\ ZeroPartials

SpecStale == Init /\ [][NextStale]_vars_

----------------------------------------------------------------------------
\* Helpers of the properties.

Last == vertices[Len(vertices)]

\* The index the last call returned (var returns it inside the handle).
Returned == IF op.name = "var" THEN ret[1].index ELSE ret[1]

Leaf(idx) == Vertex(<<idx, idx>>, <<0, 0>>)

LeafCall ==
    \/ op.name \in {"var", "push_nullary"}
    \/ op.name = "push" /\ op.operation = "Nullary"

UnaryCall ==
    \/ op.name = "push_unary"
    \/ op.name = "push" /\ op.operation = "Unary"

BinaryCall ==
    \/ op.name = "push_binary"
    \/ op.name = "push" /\ op.operation = "Binary"

\* C1: every recording call returns the length of the tape just before the
\* call (the i-th var call made by vars returns the length before that var
\* call), and the indices returned since the tape was created or last
\* cleared are 0, 1, ..., n-1 in call order.
C1_IndicesInCallOrder ==
    /\ op.name \in Recording \ {"vars"} => Returned = preLen
    /\ op.name = "vars" => \A i \in 1 .. Len(ret) : ret[i].index = preLen + i - 1
    /\ issued = [i \in 1 .. Len(issued) |-> i - 1]

C1_Witness ==
    /\ op.name = "push_binary"
    /\ issued = <<0, 1>>
    /\ phase = "later"

\* C2: len() is the number of recording calls made since the tape was
\* created or last cleared (zero() neither counts nor changes it), and
\* is_empty() is true exactly when len() is 0.
C2_LenCountsRecordings ==
    /\ len(vertices) = Len(issued)
    /\ is_empty(vertices) <=> (len(vertices) = 0)
    /\ op.name = "len" => ret = <<Len(issued)>>
    /\ op.name = "is_empty" => ret = <<Len(issued) = 0>>

C2_Witness ==
    /\ op.name = "len"
    /\ ret = <<2>>
    /\ Len(issued) = 2

\* C3: a leaf recording (var, push_nullary, push with Nullary) appends the
\* vertex with parents (idx, idx) and partials (0, 0), idx being the index it
\* returns, whatever parents and partials were passed to push.
C3_LeafVertex ==
    LeafCall => /\ Len(vertices) = Returned + 1
                /\ Last = Leaf(Returned)

C3_Witness ==
    /\ op.name = "push"
    /\ op.operation = "Nullary"
    /\ op.parents = <<0, 1>>
    /\ op.partials = <<1, 1>>
    /\ preLen = 1

\* C4: a one-input recording appends the vertex with parents (p, idx) and
\* partials (d, 0): p and d are the arguments of push_unary, or parents[0]
\* and partials[0] of push with Unary, whose second entries are not read.
C4_UnaryVertex ==
    UnaryCall => /\ Len(vertices) = Returned + 1
                 /\ Last = Vertex(<<op.parents[1], Returned>>, <<op.partials[1], 0>>)

C4_Witness ==
    /\ op.name = "push"
    /\ op.operation = "Unary"
    /\ op.parents = <<0, 0>>
    /\ op.partials = <<1, 1>>
    /\ preLen = 1

\* C5: a two-input recording stores its arguments verbatim: parents (p0, p1)
\* and partials (d0, d1), slot 0 and slot 1 not swapped, no value altered.
C5_BinaryVertex ==
    BinaryCall => /\ Len(vertices) = Returned + 1
                  /\ Last = Vertex(<<op.parents[1], op.parents[2]>>,
                                   <<op.partials[1], op.partials[2]>>)

C5_Witness ==
    /\ op.name = "push_binary"
    /\ op.parents = <<1, 0>>
    /\ op.partials = <<0, 1>>
    /\ preLen = 1

\* C6: after clear(), called on an empty or a populated tape, len() is 0 and
\* is_empty() is true, and the first recording call after it, of any arity
\* and with zero(), len() or is_empty() calls in between, returns index 0.
C6_ClearResets ==
    /\ op.name = "clear" => len(vertices) = 0 /\ is_empty(vertices)
    /\ phase = "cleared" => len(vertices) = 0 /\ is_empty(vertices)
    /\ phase = "first" => /\ op.name \in Recording
                          /\ preLen = 0
                          /\ IF op.name = "vars" THEN ret[1].index = 0 ELSE Returned = 0

C6_Witness ==
    /\ op.name = "clear"
    /\ preLen = 2

\* C7: zero() sets the partials of every vertex on the tape to (0, 0) and
\* leaves the length of the tape and the parents of every vertex unchanged.
C7_ZeroFrame ==
    [][op'.name = "zero" =>
          /\ Len(vertices') = Len(vertices)
          /\ \A i \in 1 .. Len(vertices) :
                /\ vertices'[i].parents = vertices[i].parents
                /\ vertices'[i].partials = <<0, 0>>]_vars_

C7_Witness ==
    /\ op.name = "zero"
    /\ Len(vertices) = 2
    /\ vertices[1].parents = <<1, 0>>
    /\ vertices[2].parents = <<0, 1>>

\* C8: the arity-specialised entry points and the generic push return the
\* same index and leave the same vertex sequence, so the tape driven
\* through one form and the tape driven through the other stay identical.
C8_SpecialisedEqualsGeneric ==
    /\ vertices = mirror
    /\ op.name \in {"push", "push_nullary", "push_unary", "push_binary"} => ret = ret2

C8_Witness ==
    /\ op.name = "push"
    /\ op.operation = "Unary"
    /\ op.parents = <<1, 0>>
    /\ op.partials = <<1, 1>>
    /\ preLen = 1
    /\ Len(mirror) = 2
    /\ mirror[1].parents = <<1, 0>>

\* C9: vars(values) on a tape of length L appends one leaf vertex per value,
\* returns the handles in input order, the i-th with values[i] and index
\* L + i, and leaves the same tape and the same handles as one var call per
\* value; with no values the tape is unchanged.
C9_VarsIsVarLoop ==
    [][op'.name = "vars" =>
          LET k == Len(op'.values)
              L == Len(vertices)
          IN  /\ vertices' = vertices \o [i \in 1 .. k |-> Leaf(L + i - 1)]
              /\ ret' = [i \in 1 .. k |-> [value |-> op'.values[i], index |-> L + i - 1]]
              /\ mirror' = vertices'
              /\ ret2' = ret']_vars_

C9_Witness ==
    /\ op.name = "vars"
    /\ op.values = <<3, 2>>
    /\ Len(vertices) = 2
    /\ ret[2] = [value |-> 2, index |-> 1]

\* Every parent index stored in a vertex is at most the vertex's own index.
BackwardEdges ==
    \A i \in 1 .. Len(vertices) :
        \A slot \in 1 .. 2 : vertices[i].parents[slot] <= i - 1

\* C10 as stated: in every reachable state every stored parent index is
\* less than or equal to its vertex's own index.
C10_Original == BackwardEdges

\* C10 as amended: as long as every parent index handed to a recording call
\* denoted a vertex of the tape at the call, every stored parent index is
\* less than or equal to its vertex's own index.
C10_BackwardEdgesIfTrusted == ~misused => BackwardEdges

C10_Witness ==
    /\ ~misused
    /\ op.name = "push_binary"
    /\ Len(vertices) = 2
    /\ Last.parents = <<0, 0>>

\* The index of the last read.
ReadIndex == op.values[1]

StaleRead == op.name = "read" /\ ReadIndex \in dangling

\* C11 as stated: a read of the tape at an index issued before a clear() is
\* an out-of-range fault, at any later point, also after further recording
\* calls.
C11_Original == StaleRead => ret[1].fault

\* C11 as amended: a read at an index issued before a clear() is an
\* out-of-range fault as long as the tape is not longer than the index, so
\* every such read faults between the clear() and the next recording call;
\* once recording calls have made the tape longer than the index the read
\* returns the vertex recorded at that position after the clear().
C11_StaleReadFaultsWhileOutOfRange ==
    /\ StaleRead => /\ ret[1].fault <=> (ReadIndex >= len(vertices))
                    /\ ~ret[1].fault => ret[1].vertex = vertices[ReadIndex + 1]
    /\ phase = "cleared" => \A index \in dangling : read(vertices, index).fault

C11_Witness ==
    /\ StaleRead
    /\ ReadIndex = 1
    /\ ~ret[1].fault
    /\ phase = "later"

\* C12: no operation has an error outcome.  In every reachable state every
\* operation can be called (the recording calls as long as the model's cap
\* on the length leaves room) and the call made last completed without a
\* refused borrow; a recording call given a parent index that denotes no
\* vertex (parent >= len() at the call) appends the vertex with that index
\* stored as given and returns the new index as for any other parent.
C12_NoErrorOutcome ==
    /\ ENABLED CallLen
    /\ ENABLED CallIsEmpty
    /\ ENABLED CallClear
    /\ ENABLED CallZero
    /\ ENABLED CallVars
    /\ Len(vertices) < MaxLen =>
          /\ ENABLED CallVar
          /\ ENABLED CallPush
          /\ ENABLED CallPushNullary
          /\ ENABLED CallPushUnary
          /\ ENABLED CallPushBinary
    /\ ~cell.conflict
    /\ (UnaryCall \/ BinaryCall) /\ op.parents[1] >= preLen =>
          /\ Len(vertices) = preLen + 1
          /\ Returned = preLen
          /\ Last.parents[1] = op.parents[1]
    /\ BinaryCall /\ op.parents[2] >= preLen =>
          /\ Len(vertices) = preLen + 1
          /\ Returned = preLen
          /\ Last.parents[2] = op.parents[2]

C12_Witness ==
    /\ op.name = "push_unary"
    /\ op.parents[1] = 1
    /\ preLen = 0
    /\ Last.parents = <<1, 0>>
    /\ misused

\* C13: recording is append-only.  A recording call leaves every vertex
\* already on the tape in place, parents and partials unchanged, and in any
\* call a vertex changes only through zero() (its partials only) or
\* disappears through clear().
C13_AppendOnly ==
    [][/\ op'.name \in Recording =>
             /\ Len(vertices') >= Len(vertices)
             /\ SubSeq(vertices', 1, Len(vertices)) = vertices
       /\ \A i \in 1 .. Len(vertices) :
             \/ i <= Len(vertices') /\ vertices'[i] = vertices[i]
             \/ /\ op'.name = "zero"
                /\ i <= Len(vertices')
                /\ vertices'[i].parents = vertices[i].parents
             \/ op'.name = "clear"]_vars_

C13_Witness ==
    /\ op.name = "var"
    /\ preLen = 1
    /\ Len(vertices) = 2
    /\ vertices[1] = Vertex(<<1, 0>>, <<1, 1>>)

\* C14: a cleared tape is indistinguishable from a new one.  The tape that
\* is cleared and the tape that is replaced by Tape::new() at the same
\* points return the same values and hold the same vertices after every
\* call; after clear() every operation can be called, and no state is
\* terminal.
C14_ClearedIsNew ==
    /\ vertices = fresh
    /\ ret = ret3
    /\ op.name = "clear" => vertices = new
    /\ phase = "cleared" =>
          /\ ENABLED CallVar
          /\ ENABLED CallVars
          /\ ENABLED CallLen
          /\ ENABLED CallIsEmpty
          /\ ENABLED CallClear
          /\ ENABLED CallZero
          /\ ENABLED CallPush
          /\ ENABLED CallPushNullary
          /\ ENABLED CallPushUnary
          /\ ENABLED CallPushBinary
    /\ ENABLED Next

C14_Witness ==
    /\ phase = "first"
    /\ op.name = "push_binary"
    /\ op.parents = <<1, 0>>
    /\ ret3 = <<0>>
    /\ Len(fresh) = 1

\* C15: every tape operation takes the borrow of the vertex sequence once
\* (vars once per value, one after the other), holds no borrow while
\* another is taken and has dropped it when it returns: at most one borrow
\* is in flight, no borrow is refused, and the cell is not borrowed between
\* calls.
C15_OneBorrowAtATime ==
    /\ cell.flag = 0
    /\ ~cell.conflict
    /\ cell.peak <= 1
    /\ op.name \in {"new", "default"} => cell.taken = 0
    /\ op.name = "vars" => cell.taken = Len(op.values)
    /\ op.name \notin {"new", "default", "vars"} => cell.taken = 1

C15_Witness ==
    /\ op.name = "vars"
    /\ Len(op.values) = 2
    /\ cell.taken = 2
    /\ cell.peak = 1

\* C16: as long as every parent index handed to push_unary, push_binary and
\* push (Unary: parents[0]; Binary: both) was below len() at the call, every
\* stored parent index denotes a vertex of the tape and is at most its
\* vertex's own index, and it equals the own index only in the
\* self-referential slots: both slots of a leaf, slot 1 of a one-input
\* vertex.  clear() and zero() keep it so.
C16_TrustedParentsInRange ==
    ~misused =>
        \A i \in 1 .. Len(vertices) :
            LET v == vertices[i]
                idx == i - 1
            IN  /\ \A slot \in 1 .. 2 : /\ v.parents[slot] < len(vertices)
                                        /\ v.parents[slot] <= idx
                /\ v.parents[1] = idx => v.parents[2] = idx /\ v.partials = <<0, 0>>
                /\ v.parents[2] = idx => v.partials[2] = 0

C16_Witness ==
    /\ ~misused
    /\ op.name = "zero"
    /\ Len(vertices) = 2
    /\ vertices[1].parents = <<0, 0>>
    /\ vertices[2].parents = <<0, 1>>

\* C17: zero() is idempotent and acts only on the vertices present when it
\* is called.  A second zero() changes nothing more, zero() on an empty tape
\* leaves it empty, a vertex recorded right after a zero() has the partials
\* it was recorded with, and no call other than zero() and clear() changes
\* the partials of a vertex on the tape.
C17_ZeroIdempotent ==
    [][/\ op'.name = "zero" =>
             /\ zero(vertices') = vertices'
             /\ vertices = <<>> => vertices' = <<>>
       /\ op'.name \notin {"zero", "clear"} =>
             \A i \in 1 .. Len(vertices) :
                 /\ i <= Len(vertices')
                 /\ vertices'[i].partials = vertices[i].partials
       /\ op.name = "zero" /\ op'.name \in {"push", "push_unary", "push_binary"} =>
             vertices'[Len(vertices')].partials =
                 CASE op'.operation = "Nullary" -> <<0, 0>>
                   [] op'.operation = "Unary"   -> <<op'.partials[1], 0>>
                   [] op'.operation = "Binary"  -> op'.partials]_vars_

C17_Witness ==
    /\ op.name = "zero"
    /\ preLen = 2
    /\ vertices[1].parents = <<0, 1>>
    /\ vertices[2].parents = <<1, 0>>
    /\ vertices[2].partials = <<0, 0>>

====
